---- MODULE Spec2Model ----
(***************************************************************************)
(* Sakura Dream: the hand tracker feeding App's gesture/pointer state, the *)
(* per-frame animation state of Scene (expansion, hue, camera joystick),   *)
(* the fractal tree generator with its particle buffers, and the photo     *)
(* anchor generator.                                                       *)
(*                                                                         *)
(* Numbers.  The code computes in IEEE doubles; the model computes the     *)
(* same expressions exactly, on rationals with a fixed denominator:        *)
(*   pointer coordinates   in 1/100        (0.5 is 50, deadZone 0.15 is 15)*)
(*   frame delta           in 1/8 second   (q eighths; q = 8 is one second)*)
(*   expansion             in 1/ExpUnit    (ExpUnit = 4^MaxFrames, exact   *)
(*                                          because delta*2.0 = q/4)       *)
(*   hue offset            in 1/16         (delta*0.5 = q/16)              *)
(*   camera rates          in 1/70 rad/s   ((|d|-0.15)/0.35*2.0 = 4(|d|-15)/70)*)
(*   camera angles         in 1/560 rad    (rate*delta = rate*q/560)       *)
(* A polar angle is pi*PI + r/560 with pi in {0,1}, so that the clamp      *)
(* bound Math.PI - 0.5 is represented exactly.                             *)
(***************************************************************************)
EXTENDS Integers, Sequences, FiniteSets, TLC

VARIABLES
  lastTracked,      \* position of the latest update delivered with isTracking (ghost)
  currentGesture,   \* App: useState('NONE')
  handPosition,     \* App: useState({x: 0.5, y: 0.5})
  hudData,          \* App: useState({fingers: 0, gesture: 'NONE'})
  status,           \* HandTracker: useState("Initializing...")
  lastUpdate,       \* the data object of the latest onUpdate call (delivered = FALSE before the first)
  expansion,        \* Scene: expansionRef.current
  hue,              \* Scene: hueRef.current
  azimuth,          \* OrbitControls azimuthal angle, as read back by getAzimuthalAngle
  polar,            \* OrbitControls polar angle, as read back by getPolarAngle
  frames,           \* number of rendered frames so far
  lastFrame,        \* the gesture, pointer position and delta the latest frame ran with (q = 0 before the first)
  nonFinite,        \* the animation values that hold NaN or an infinity, of {"expansion", "hue", "bg", "azimuth", "polar"};
                    \* the number kept for such a value is the last finite one
  handPosKind,      \* what handPosition.x holds: "num" (the number in handPosition), "NaN", "Infinity" or "-Infinity"
  isRevealed,       \* Scene: the isRevealed prop FloatingGallery got at the latest render
  sceneMounted,     \* Scene has rendered once (its useMemo holds a value, its useFrame is subscribed)
  generateTreeCalls,    \* number of generateTree calls made so far
  createPhotoDataCalls, \* number of createPhotoData calls made so far
  trackerPc,        \* HandTracker: "off" before it is mounted, then "running" or "error"
  mediaPipe,        \* window.Hands and window.Camera as the effect found them: "unknown" | "loaded" | "missing"
  sustain,          \* 0 before the first frame; q while every frame so far ran with OPEN_HAND and delta q; -1 otherwise
  treePc,           \* generateTree: "idle" | "grow" | "return" | "done" | "hang"
  treeParams,       \* generateTree: { depth, branchLength, startPos }
  stack,            \* generateTree: the active growBranch calls, innermost last
  woodBuffer,       \* generateTree: woodBuffer
  blossomBuffer,    \* generateTree: blossomBuffer
  leafNodes,        \* generateTree: leafNodes
  treeData,         \* the TreeData generateTree returned
  growCalls,        \* number of growBranch calls made so far
  photoPc,          \* createPhotoData: "idle" before the first call, "done" after a return
  photoArgs,        \* createPhotoData: the arguments (leafNodes, count) of the latest call
  photos,           \* the PhotoData[] the latest call returned
  spacePos,         \* the latest galaxy target position drawn, and for what: "particle" or "photo"
  polaroids,        \* FloatingGallery: per Polaroid its group's transform, the target its
                    \* latest frame chose, its texture state and the state of its image load
  photoFrames,      \* number of frames the Polaroids have run
  geometry,         \* SakuraTree: per mode ("wood", "blossom") the attributes of its geometry
  uniforms          \* SakuraShaderMaterial.uniforms, the one object both materials are given

\* What the tracker's updates write, and what the frames write.
appVars == <<currentGesture, handPosition, hudData, status, lastUpdate, handPosKind, isRevealed,
             lastTracked>>

\* What mounting Scene and HandTracker writes.
mountVars == <<sceneMounted, generateTreeCalls, createPhotoDataCalls, trackerPc, mediaPipe>>

frameVars == <<expansion, hue, azimuth, polar, frames, lastFrame, sustain, nonFinite>>

animVars == <<appVars, frameVars, mountVars>>

treeVars == <<treePc, treeParams, stack, woodBuffer, blossomBuffer, leafNodes, treeData, growCalls>>

photoVars == <<photoPc, photoArgs, photos, spacePos>>

galleryVars == <<polaroids, photoFrames>>

sakuraVars == <<geometry, uniforms>>

vars == <<animVars, treeVars, photoVars, galleryVars, sakuraVars>>

(***************************************************************************)
(* Bounds                                                                  *)
(***************************************************************************)
MaxFrames == 4

ExpUnit == 4 ^ MaxFrames

\* Frame deltas, in eighths of a second: 1/8 s, 1/2 s and 1 s (a stalled frame).  The delta
\* is the clock time elapsed since the previous frame, so it is positive.
DeltaInputs == {1, 4, 8}

\* Finger poses <<thumbOpen, indexUp, middleUp, ringUp, pinkyUp>> seen by the tracker.
FingerInputs ==
  { <<FALSE, FALSE, FALSE, FALSE, FALSE>>,
    <<TRUE, TRUE, TRUE, TRUE, TRUE>>,
    <<FALSE, TRUE, FALSE, FALSE, FALSE>>,
    <<FALSE, TRUE, TRUE, FALSE, FALSE>>,
    <<FALSE, TRUE, TRUE, TRUE, FALSE>> }

\* The one pose the camera scenario is run with: three fingers, no gesture command.
FingerNeutral == { <<FALSE, TRUE, TRUE, TRUE, FALSE>> }

\* Palm-centre landmark (landmarks[9]) positions <<x, y>>, in hundredths.
PalmCentre == { <<50, 50>> }

\* The malformed values a frame delta or a landmark coordinate can carry.
MalformedInputs == {"NaN", "Infinity"}
PalmInputs == { <<50, 50>>, <<35, 65>>, <<0, 100>>, <<100, 0>> }

(***************************************************************************)
(* HandTracker.onResults and App.handleHandUpdate                          *)
(***************************************************************************)
Count(fingers) ==
  (IF fingers[1] THEN 1 ELSE 0) + (IF fingers[2] THEN 1 ELSE 0)
    + (IF fingers[3] THEN 1 ELSE 0) + (IF fingers[4] THEN 1 ELSE 0)
    + (IF fingers[5] THEN 1 ELSE 0)

CountLabel(count) ==
  CASE count = 1 -> "COUNT_1"
    [] count = 2 -> "COUNT_2"
    [] count = 3 -> "COUNT_3"
    [] count = 4 -> "COUNT_4"
    [] OTHER -> "COUNT_0"

\* GESTURE MAPPING: fingers[2] is indexUp, fingers[3] is middleUp.
GestureOf(fingers) ==
  LET count == Count(fingers) IN
  IF count = 0 THEN "FIST"
  ELSE IF count = 5 THEN "OPEN_HAND"
  ELSE IF count = 1 /\ fingers[2] THEN "ONE_FINGER"
  ELSE IF count = 2 /\ fingers[2] /\ fingers[3] THEN "TWO_FINGERS"
  ELSE CountLabel(count)

\* The data object onResults builds when a hand is in view: x is mirrored.
TrackedData(fingers, palm) ==
  [ fingerCount |-> Count(fingers),
    gesture |-> GestureOf(fingers),
    position |-> [x |-> 100 - palm[1], y |-> palm[2]],
    isTracking |-> TRUE,
    delivered |-> TRUE ]

\* The data object onResults builds when no hand is in view.
LostData ==
  [ fingerCount |-> 0,
    gesture |-> "NONE",
    position |-> [x |-> 50, y |-> 50],
    isTracking |-> FALSE,
    delivered |-> TRUE ]

handleHandUpdate_NoGuard(data) ==
  /\ hudData' = [fingers |-> data.fingerCount, gesture |-> data.gesture]
  /\ currentGesture' = data.gesture
  /\ handPosition' = data.position

handleHandUpdate_KeepGesture(data) ==
  /\ hudData' = [fingers |-> data.fingerCount, gesture |-> data.gesture]
  /\ IF data.isTracking
       THEN currentGesture' = data.gesture /\ handPosition' = data.position
       ELSE currentGesture' = currentGesture /\ handPosition' = handPosition

handleHandUpdate(data) ==
  /\ hudData' = [fingers |-> data.fingerCount, gesture |-> data.gesture]
  /\ currentGesture' = data.gesture
  /\ IF data.isTracking
       THEN handPosition' = data.position
       ELSE handPosition' = handPosition

IsRevealed_Open(gesture) == gesture \in {"TWO_FINGERS", "OPEN_HAND"}

\* gesture === 'TWO_FINGERS'
IsRevealed(gesture) == gesture = "TWO_FINGERS"

(***************************************************************************)
(* FloatingGallery: the Polaroids.  A Polaroid is modelled by the y         *)
(* component of its group's position (the one the float animation acts     *)
(* on), the x component of its rotation and its scale, in                  *)
(* 1/(10 * GalUnit); a frame delta is q/8 s as for Scene.                  *)
(***************************************************************************)
MaxPhotoFrames == 1

GalUnit == 16 ^ MaxPhotoFrames

\* The PhotoData of the photos shown, in tenths: position and rotation on the tree,
\* targetSpacePos and targetSpaceRot in the galaxy; facing is the rotation of the
\* dummy object after lookAt(camera.position), for the camera where the photo is
\* revealed.
PhotoInputs ==
  << [position |-> 120, rotation |-> 1, targetSpacePos |-> 900, targetSpaceRot |-> 10,
      facing |-> 3],
     [position |-> 185, rotation |-> -1, targetSpacePos |-> -1500, targetSpaceRot |-> 25,
      facing |-> -3] >>

\* Math.sin(time * ...) of the float animation on a frame.
FloatInputs == {0, 1}

\* <group ref={meshRef} position={data.position} rotation={data.rotation} scale={0.3}>
\* with useState<THREE.Texture | null>(null) and the load started by the effect.
MountPolaroid(data) ==
  [position |-> data.position * GalUnit, rotation |-> data.rotation * GalUnit,
   scale |-> 3 * GalUnit, target |-> "none", isExploded |-> FALSE,
   texture |-> "null", load |-> "pending"]

MountPolaroids == [i \in 1 .. Len(PhotoInputs) |-> MountPolaroid(PhotoInputs[i])]

\* The material of the photo plane: texture ? map : color "#333".
Material(p) == IF p.texture # "null" THEN "map" ELSE "placeholder"

\* loader.load(data.url, (tex) => { ...; setTexture(tex) }): the onLoad callback.
\* The re-render changes no prop of the group, whose transform stays as it is.
TextureLoad(i) ==
  /\ sceneMounted
  /\ polaroids[i].load = "pending"
  /\ polaroids' = [polaroids EXCEPT ![i].load = "loaded", ![i].texture = "loaded"]
  /\ UNCHANGED <<animVars, treeVars, photoVars, photoFrames, sakuraVars>>

\* The load fails: loader.load was given no onError callback, nothing is called.
TextureError(i) ==
  /\ sceneMounted
  /\ polaroids[i].load = "pending"
  /\ polaroids' = [polaroids EXCEPT ![i].load = "failed"]
  /\ UNCHANGED <<animVars, treeVars, photoVars, photoFrames, sakuraVars>>

TextureLoads == \E i \in 1 .. Len(PhotoInputs) : TextureLoad(i)

TextureErrors == \E i \in 1 .. Len(PhotoInputs) : TextureError(i)

SelectTarget_ExpansionFirst(revealed, exploded) ==
  IF exploded THEN "galaxy" ELSE IF revealed THEN "revealed" ELSE "tree"

\* if (isRevealed) ... else if (isExploded) ... else ...
SelectTarget(revealed, exploded) ==
  IF revealed THEN "revealed" ELSE IF exploded THEN "galaxy" ELSE "tree"

\* targetPos.y, targetRot.x and targetScale of the branch taken, in tenths.
PolaroidTarget(data, index, kind) ==
  CASE kind = "revealed" ->
         [pos |-> (IF index % 2 = 0 THEN 1 ELSE -1) * 30, rot |-> data.facing, scale |-> 25]
    [] kind = "galaxy" ->
         [pos |-> data.targetSpacePos, rot |-> data.targetSpaceRot, scale |-> 5]
    [] OTHER ->
         [pos |-> data.position, rot |-> data.rotation, scale |-> 3]

\* isRevealed ? 3.0 : 1.5, in tenths per second.
lerpSpeed(revealed) == IF revealed THEN 30 ELSE 15

\* lerp(x, y, delta * speed) = x + (y - x) * w with w = (q/8) * (speed/10), in sixteenths.
Lerp16(x, y, q, speed) ==
  LET w == (q * speed * 16) \div 80 IN ((16 - w) * x + w * y) \div 16

\* Math.sin(...) * (isRevealed ? 0.5 : 0.2), in tenths.
FloatY(revealed, sine) == sine * (IF revealed THEN 5 ELSE 2)

\* The smoothing of lines 80-90: position and rotation by delta * lerpSpeed, the
\* scale by delta * 2.
Approach(p, target, revealed, q, sine) ==
  [p EXCEPT
     !.position = Lerp16(@, (target.pos + FloatY(revealed, sine)) * GalUnit, q,
                         lerpSpeed(revealed)),
     !.rotation = Lerp16(@, target.rot * GalUnit, q, lerpSpeed(revealed)),
     !.scale = Lerp16(@, target.scale * GalUnit, q, 20)]

PolaroidUseFrame_NeedsTexture(p, data, index, revealed, exp, q, sine) ==
  IF p.texture = "null" THEN p
  ELSE LET isExploded == 2 * exp > ExpUnit
           kind == SelectTarget(revealed, isExploded)
       IN [Approach(p, PolaroidTarget(data, index, kind), revealed, q, sine)
             EXCEPT !.target = kind, !.isExploded = isExploded]

\* The useFrame callback of a mounted Polaroid (meshRef.current is set): revealed is
\* the isRevealed prop, exp is expansionRef.current.  target and isExploded record
\* the branch taken and the local of line 37.
PolaroidUseFrame(p, data, index, revealed, exp, q, sine) ==
  LET isExploded == 2 * exp > ExpUnit
      kind == SelectTarget(revealed, isExploded)
  IN [Approach(p, PolaroidTarget(data, index, kind), revealed, q, sine)
        EXCEPT !.target = kind, !.isExploded = isExploded]

\* One frame of the gallery: the callback of every Polaroid runs with the frame's
\* delta, each with its own float phase.
GalleryFrame ==
  \E q \in DeltaInputs, sines \in [1 .. Len(PhotoInputs) -> FloatInputs] :
    /\ sceneMounted
    /\ photoFrames < MaxPhotoFrames
    /\ polaroids' = [i \in 1 .. Len(polaroids) |->
                       PolaroidUseFrame(polaroids[i], PhotoInputs[i], i - 1, isRevealed,
                                        expansion, q, sines[i])]
    /\ photoFrames' = photoFrames + 1
    /\ UNCHANGED <<animVars, treeVars, photoVars, sakuraVars>>

\* const { treeData, photos } = useMemo(() => ..., []): the function runs on the first
\* render only; it calls generateTree twice and createPhotoData once.
UseMemoGenerate(firstRender) ==
  IF firstRender
    THEN /\ generateTreeCalls' = generateTreeCalls + 2
         /\ createPhotoDataCalls' = createPhotoDataCalls + 1
    ELSE UNCHANGED <<generateTreeCalls, createPhotoDataCalls>>

\* The first render of Scene, with the initial props.
SceneMount ==
  /\ ~sceneMounted
  /\ sceneMounted' = TRUE
  /\ UseMemoGenerate(TRUE)
  /\ isRevealed' = IsRevealed(currentGesture)
  /\ UNCHANGED <<currentGesture, handPosition, hudData, status, lastUpdate, handPosKind, lastTracked>>
  /\ UNCHANGED <<trackerPc, mediaPipe>>
  /\ UNCHANGED frameVars
  /\ polaroids' = MountPolaroids
  /\ UNCHANGED photoFrames
  /\ UNCHANGED <<treeVars, photoVars, sakuraVars>>

\* A render of Scene after App's state changed: new gesture and handPos props.
SceneRerender ==
  /\ sceneMounted
  /\ UseMemoGenerate(FALSE)
  /\ isRevealed' = IsRevealed(currentGesture')
  /\ UNCHANGED sceneMounted

TrackerAfterEffect_NoReturn(libs) == "running"

\* if (!Hands || !Camera) { setStatus("Error: ..."); return; }
TrackerAfterEffect(libs) == IF libs = "missing" THEN "error" ELSE "running"

\* "Start Camera" mounts HandTracker and its effect runs, once (onUpdate is stable).
\* Without the libraries no onResults handler is registered.
StartTracker ==
  \E libs \in {"loaded", "missing"} :
    /\ sceneMounted
    /\ trackerPc = "off"
    /\ mediaPipe' = libs
    /\ trackerPc' = TrackerAfterEffect(libs)
    /\ status' = IF libs = "missing" THEN "Error: MediaPipe Libraries not found" ELSE status
    /\ UNCHANGED <<currentGesture, handPosition, hudData, lastUpdate, handPosKind, isRevealed, lastTracked>>
    /\ UNCHANGED <<sceneMounted, generateTreeCalls, createPhotoDataCalls>>
    /\ UNCHANGED frameVars
    /\ UNCHANGED <<treeVars, photoVars, galleryVars, sakuraVars>>

OnResultsHand(poses, palms) ==
  \E fingers \in poses, palm \in palms :
    LET data == TrackedData(fingers, palm) IN
    /\ trackerPc = "running"
    /\ handleHandUpdate(data)
    /\ SceneRerender
    /\ UNCHANGED <<trackerPc, mediaPipe>>
    /\ lastUpdate' = data
    /\ lastTracked' = data.position
    /\ status' = "Tracking: " \o data.gesture
    /\ handPosKind' = "num"
    /\ UNCHANGED frameVars
    /\ UNCHANGED <<treeVars, photoVars, galleryVars, sakuraVars>>

\* const normalizedPos = { x: 1.0 - landmarks[9].x, ... } for a landmark x that is NaN
\* or +Infinity.
MirrorKind(kind) == IF kind = "Infinity" THEN "-Infinity" ELSE kind

\* onResults for a hand whose palm landmark has a malformed x, the first malformed
\* input of the run; the x kept in handPosition is then not the value.
OnResultsMalformed(poses) ==
  \E fingers \in poses, palm \in PalmCentre, kind \in MalformedInputs :
    LET data == TrackedData(fingers, palm) IN
    /\ trackerPc = "running"
    /\ nonFinite = {}
    /\ handPosKind = "num"
    /\ handleHandUpdate(data)
    /\ SceneRerender
    /\ UNCHANGED <<trackerPc, mediaPipe>>
    /\ lastUpdate' = data
    /\ lastTracked' = data.position
    /\ status' = "Tracking: " \o data.gesture
    /\ handPosKind' = MirrorKind(kind)
    /\ UNCHANGED frameVars
    /\ UNCHANGED <<treeVars, photoVars, galleryVars, sakuraVars>>

OnResultsNoHand ==
  /\ trackerPc = "running"
  /\ handleHandUpdate(LostData)
  /\ SceneRerender
  /\ UNCHANGED <<trackerPc, mediaPipe>>
  /\ lastUpdate' = LostData
  /\ UNCHANGED lastTracked
  /\ status' = "Searching Hand..."
  /\ UNCHANGED handPosKind
  /\ UNCHANGED frameVars
  /\ UNCHANGED <<treeVars, photoVars, galleryVars, sakuraVars>>

(***************************************************************************)
(* Scene.useFrame                                                          *)
(***************************************************************************)
Abs(n) == IF n < 0 THEN -n ELSE n

Sign(n) == IF n > 0 THEN 1 ELSE IF n < 0 THEN -1 ELSE 0

\* THREE.MathUtils.lerp(x, y, t) = (1 - t) * x + t * y with t = delta * 2.0 = q/4.
Lerp(x, y, q) == ((4 - q) * x + q * y) \div 4

TargetExpansion(gesture, current) ==
  IF gesture = "OPEN_HAND" THEN ExpUnit
  ELSE IF gesture = "FIST" THEN 0
  ELSE current

NextExpansion(gesture, current, q) ==
  Lerp(current, TargetExpansion(gesture, current), q)

NextHue_Reset(gesture, current, q) ==
  IF gesture = "ONE_FINGER" THEN current + q ELSE 0

NextHue(gesture, current, q) ==
  IF gesture = "ONE_FINGER" THEN current + q ELSE current

deadZone == 15
centerX == 50
centerY == 50

\* (|d| - deadZone) / (0.5 - deadZone) * 2.0, in 1/70 rad/s.
AzimuthRate(dx) ==
  IF Abs(dx) > deadZone THEN Sign(dx) * (Abs(dx) - deadZone) * 4 ELSE 0

PolarRate_MaxTwo(dy) ==
  IF Abs(dy) > deadZone THEN Sign(dy) * (Abs(dy) - deadZone) * 4 ELSE 0

\* (|d| - deadZone) / (0.5 - deadZone) * 1.5, in 1/70 rad/s.
PolarRate(dy) ==
  IF Abs(dy) > deadZone THEN Sign(dy) * (Abs(dy) - deadZone) * 3 ELSE 0

\* floor(560 * Math.PI): 560*pi = 1759.29...
PiFloor == 1759
Half == 280

AngleLess(a, b) ==
  IF a.pi = b.pi THEN a.r < b.r
  ELSE IF a.pi = 1 THEN b.r - a.r > PiFloor
  ELSE a.r - b.r <= PiFloor

AngleMin(a, b) == IF AngleLess(b, a) THEN b ELSE a
AngleMax(a, b) == IF AngleLess(a, b) THEN b ELSE a

PolarLow == [pi |-> 0, r |-> Half]
PolarHigh == [pi |-> 1, r |-> -Half]

ClampPolar_NoUpper(nextPolar) == AngleMax(PolarLow, nextPolar)

\* Math.max(0.5, Math.min(Math.PI - 0.5, nextPolar))
ClampPolar(nextPolar) == AngleMax(PolarLow, AngleMin(PolarHigh, nextPolar))

NextAzimuth(currentAzimuth, dx, q) == currentAzimuth + AzimuthRate(dx) * q

NextPolar(currentPolar, dy, q) ==
  ClampPolar([pi |-> currentPolar.pi, r |-> currentPolar.r + PolarRate(dy) * q])

\* A frame with a finite delta.  A value that is NaN or infinite stays so: lerp and +
\* of a non-finite value are non-finite, Math.max/Math.min of NaN are NaN.  With
\* handPos.x = NaN both dead-zone tests are false (azimuthRate 0); with an infinite
\* handPos.x the rate and the azimuth written are infinite.  targetBg is a lerp by
\* expansionRef.current, so a non-finite expansion makes the background non-finite.
Frame(q) ==
  /\ sceneMounted
  /\ frames < MaxFrames
  /\ expansion' = IF "expansion" \in nonFinite THEN expansion
                  ELSE NextExpansion(currentGesture, expansion, q)
  /\ hue' = IF "hue" \in nonFinite THEN hue ELSE NextHue(currentGesture, hue, q)
  /\ azimuth' = IF "azimuth" \in nonFinite \/ handPosKind # "num" THEN azimuth
                ELSE NextAzimuth(azimuth, handPosition.x - centerX, q)
  /\ polar' = IF "polar" \in nonFinite THEN polar
              ELSE NextPolar(polar, handPosition.y - centerY, q)
  /\ nonFinite' = nonFinite
                    \cup (IF "expansion" \in nonFinite THEN {"bg"} ELSE {})
                    \cup (IF handPosKind \in {"Infinity", "-Infinity"} THEN {"azimuth"} ELSE {})
  /\ frames' = frames + 1
  /\ lastFrame' = [gesture |-> currentGesture, handPos |-> handPosition, q |-> q]
  /\ sustain' = IF currentGesture = "OPEN_HAND" /\ sustain \in {0, q} THEN q ELSE -1
  /\ UNCHANGED <<appVars, mountVars>>
  /\ UNCHANGED <<treeVars, photoVars, galleryVars, sakuraVars>>

UseFrame == \E q \in DeltaInputs : Frame(q)

\* A frame whose delta is NaN or +Infinity, the first malformed input of the run.
\*   expansion: lerp(x, t, delta*2.0) = (1 - w)*x + w*t with w non-finite is NaN or infinite.
\*   hue: += delta*0.5 on ONE_FINGER only.
\*   background: bgRef.current.lerp(targetBg, delta*2.0), as expansion.
\*   azimuth: current + azimuthRate*delta, NaN also when the rate is 0 (0*NaN, 0*Infinity).
\*   polar: Math.max(0.5, Math.min(Math.PI - 0.5, current + polarRate*delta)): NaN when
\*     the sum is NaN (delta NaN, or rate 0 and delta infinite), else a clamp bound.
FrameMalformed(kind) ==
  LET polarRate == PolarRate(handPosition.y - centerY)
      polarNaN == kind = "NaN" \/ polarRate = 0
  IN
  /\ sceneMounted
  /\ frames < MaxFrames
  /\ nonFinite = {}
  /\ handPosKind = "num"
  /\ nonFinite' = {"expansion", "bg", "azimuth"}
                    \cup (IF currentGesture = "ONE_FINGER" THEN {"hue"} ELSE {})
                    \cup (IF polarNaN THEN {"polar"} ELSE {})
  /\ polar' = IF polarNaN THEN polar
              ELSE IF polarRate > 0 THEN PolarHigh ELSE PolarLow
  /\ frames' = frames + 1
  /\ lastFrame' = [gesture |-> currentGesture, handPos |-> handPosition, q |-> -1]
  /\ sustain' = -1
  /\ UNCHANGED <<expansion, hue, azimuth>>
  /\ UNCHANGED <<appVars, mountVars>>
  /\ UNCHANGED <<treeVars, photoVars, galleryVars, sakuraVars>>

UseFrameMalformed == \E kind \in MalformedInputs : FrameMalformed(kind)

\* <OrbitControls makeDefault enableDamping ... rotateSpeed={0.5} />: the user turns
\* the camera with the mouse. No minPolarAngle or maxPolarAngle is passed, so a drag
\* can leave the polar angle anywhere in [0, pi]: here at 0.3 or at pi - 0.3.
DragPolarInputs == { [pi |-> 0, r |-> 168], [pi |-> 1, r |-> -168] }

OrbitDrag ==
  \E p \in DragPolarInputs :
    /\ polar' = p
    /\ sceneMounted
    /\ UNCHANGED <<appVars, mountVars, expansion, hue, azimuth, frames, lastFrame, sustain, nonFinite>>
    /\ UNCHANGED <<treeVars, photoVars, galleryVars, sakuraVars>>

(***************************************************************************)
(* Numbers of the generator: a finite rational n/d in lowest terms, NaN or *)
(* Infinity.                                                               *)
(***************************************************************************)
RECURSIVE Gcd(_, _)
Gcd(a, b) == IF b = 0 THEN a ELSE Gcd(b, a % b)

Num(n, d) == LET g == Gcd(n, d) IN [kind |-> "num", n |-> n \div g, d |-> d \div g]
NaN == [kind |-> "NaN", n |-> 0, d |-> 1]
Infinity == [kind |-> "Infinity", n |-> 0, d |-> 1]

IsFinite(a) == a.kind = "num"

\* a * b for non-negative a, b; the factors are cancelled crosswise first.
Mul(a, b) ==
  IF a.kind = "NaN" \/ b.kind = "NaN" THEN NaN
  ELSE IF a.kind = "Infinity" THEN (IF b.kind = "num" /\ b.n = 0 THEN NaN ELSE Infinity)
  ELSE IF b.kind = "Infinity" THEN (IF a.n = 0 THEN NaN ELSE Infinity)
  ELSE LET g1 == Gcd(a.n, b.d)
           g2 == Gcd(b.n, a.d)
       IN [kind |-> "num",
           n |-> (a.n \div g1) * (b.n \div g2),
           d |-> (a.d \div g2) * (b.d \div g1)]

\* Math.ceil
Ceil(a) ==
  IF a.kind = "num" THEN [kind |-> "num", n |-> (a.n + a.d - 1) \div a.d, d |-> 1] ELSE a

(***************************************************************************)
(* ParticleBuffer                                                          *)
(*                                                                         *)
(* Math.random() decides the value of every attribute; the model names the *)
(* value instead: Token(n, slot) is the number the generator drew for      *)
(* component `slot` of the n-th particle of a buffer, NaNValue is NaN.     *)
(***************************************************************************)
Token(n, slot) == 32 * n + slot
NaNValue == -1

\* Float32Array: the float nearest to v, in general another number than v.
Fround(v) == IF v = NaNValue THEN NaNValue ELSE v + 16

Vec(n, first, nan) ==
  IF nan THEN [x |-> NaNValue, y |-> NaNValue, z |-> NaNValue]
  ELSE [x |-> Token(n, first), y |-> Token(n, first + 1), z |-> Token(n, first + 2)]

EmptyBuffer ==
  [positions |-> <<>>, targetPositions |-> <<>>, colors |-> <<>>, sizes |-> <<>>,
   drifts |-> <<>>, phases |-> <<>>]

add_NoSize(buf, pos, targetPos, color, size, drift, phase) ==
  [positions |-> buf.positions \o <<pos.x, pos.y, pos.z>>,
   targetPositions |-> buf.targetPositions \o <<targetPos.x, targetPos.y, targetPos.z>>,
   colors |-> buf.colors \o <<color.x, color.y, color.z>>,
   sizes |-> buf.sizes,
   drifts |-> buf.drifts \o <<drift.x, drift.y, drift.z>>,
   phases |-> buf.phases \o <<phase>>]

add(buf, pos, targetPos, color, size, drift, phase) ==
  [positions |-> buf.positions \o <<pos.x, pos.y, pos.z>>,
   targetPositions |-> buf.targetPositions \o <<targetPos.x, targetPos.y, targetPos.z>>,
   colors |-> buf.colors \o <<color.x, color.y, color.z>>,
   sizes |-> buf.sizes \o <<size>>,
   drifts |-> buf.drifts \o <<drift.x, drift.y, drift.z>>,
   phases |-> buf.phases \o <<phase>>]

F32(a) == [i \in 1..Len(a) |-> Fround(a[i])]

toData(buf) ==
  [positions |-> F32(buf.positions),
   targetPositions |-> F32(buf.targetPositions),
   colors |-> F32(buf.colors),
   sizes |-> F32(buf.sizes),
   drifts |-> F32(buf.drifts),
   phases |-> F32(buf.phases)]

Concat(buf, more) ==
  [positions |-> buf.positions \o more.positions,
   targetPositions |-> buf.targetPositions \o more.targetPositions,
   colors |-> buf.colors \o more.colors,
   sizes |-> buf.sizes \o more.sizes,
   drifts |-> buf.drifts \o more.drifts,
   phases |-> buf.phases \o more.phases]

\* What the n-th call of add on a buffer pushes, with the values drawn for particle n.
Pushed(n, nan) ==
  add(EmptyBuffer, Vec(n, 1, nan), Vec(n, 4, FALSE), Vec(n, 7, FALSE), Token(n, 10),
      Vec(n, 11, FALSE), Token(n, 14))

\* What `count` consecutive add calls push, the first of them the n-th of the
\* buffer: the pushes of the first half, then those of the rest.
RECURSIVE PushedRun(_, _, _)
PushedRun(n, count, nan) ==
  IF count = 0 THEN EmptyBuffer
  ELSE IF count = 1 THEN Pushed(n, nan)
  ELSE LET h == count \div 2
       IN Concat(PushedRun(n, h, nan), PushedRun(n + h, count - h, nan))

\* The buffer after the `count` add calls of one loop: push only appends, so the
\* calls leave `buf` followed by what they push.
AddRun(buf, count, nan) == Concat(buf, PushedRun(Len(buf.phases) + 1, count, nan))

(***************************************************************************)
(* generateTree                                                            *)
(***************************************************************************)
MaxDepth == 1

\* The valid calls: every depth up to MaxDepth, branchLength 0.04, a finite startPos.
DepthInputs == 0 .. MaxDepth

\* The shallow calls, valid and invalid: depth -1, 0 or 1; branchLength 0, 0.04, 0.08,
\* NaN or Infinity; startPos with finite or NaN coordinates.
ShallowInputs ==
  { [depth |-> d, branchLength |-> l, startPos |-> s] :
      d \in -1 .. 1,
      l \in { Num(0, 1), Num(4, 100), Num(8, 100), NaN, Infinity },
      s \in { [id |-> 0, nan |-> FALSE], [id |-> 0, nan |-> TRUE] } }

ParamInputs ==
  { [depth |-> d, branchLength |-> Num(4, 100), startPos |-> [id |-> 0, nan |-> FALSE]] :
      d \in DepthInputs }
    \cup ShallowInputs

\* depth an integer >= 0, branchLength a positive number, startPos a point.
ValidParams(p) ==
  /\ p.depth >= 0
  /\ IsFinite(p.branchLength) /\ p.branchLength.n > 0
  /\ ~p.startPos.nan

clusters == 5
particlesPerCluster == 90

AddClusters_Single(buf, c, nan) == AddRun(buf, particlesPerCluster, nan)

\* for (let c = 0; c < clusters; c++): each turn adds particlesPerCluster particles.
RECURSIVE AddClusters(_, _, _)
AddClusters(buf, c, nan) ==
  IF c = 0 THEN buf
  ELSE AddRun(AddClusters(buf, c - 1, nan), particlesPerCluster, nan)

\* const end = start.clone().add(direction.clone().multiplyScalar(length)): a point
\* is named by the growBranch call whose end it is (0: startPos); nan: NaN coordinates.
EndOf(id, start, length) == [id |-> id, nan |-> start.nan \/ ~IsFinite(length)]

DensityMultiplier(isTrunk) == IF isTrunk THEN Num(32, 1) ELSE Num(12, 1)

\* Math.ceil(length * radius * densityMultiplier)
SegmentParticles(length, radius, isTrunk) ==
  Ceil(Mul(length, Mul(radius, DensityMultiplier(isTrunk))))

\* Math.floor(randomRange(3, 5)) and Math.floor(randomRange(2, 4)), Math.random() < 1.
BranchCounts(isTrunk) == IF isTrunk THEN {3, 4} ELSE {2, 3}

\* A growBranch call; id is its number in call order.
Call(id, start, length, radius, currentDepth) ==
  [id |-> id, start |-> start, length |-> length, radius |-> radius,
   currentDepth |-> currentDepth, phase |-> "enter", end |-> start, i |-> 0,
   branchCount |-> 0]

ChildDepth_Same(currentDepth) == currentDepth

ChildDepth(currentDepth) == currentDepth - 1

Top == stack[Len(stack)]

SetTop(f) == [stack EXCEPT ![Len(stack)] = f]

GenerateTree ==
  \E p \in ParamInputs :
    /\ treePc = "idle"
    /\ treeParams' = p
    /\ woodBuffer' = EmptyBuffer
    /\ blossomBuffer' = EmptyBuffer
    /\ leafNodes' = <<>>
    /\ stack' = <<Call(1, p.startPos, p.branchLength, Num(10, 1), p.depth)>>
    /\ growCalls' = 1
    /\ treePc' = "grow"
    /\ UNCHANGED treeData
    /\ UNCHANGED <<animVars, photoVars, galleryVars, sakuraVars>>

\* growBranch up to its recursion: the wood of the segment, then either the choice
\* of branchCount or the leaf node and its blossom clusters.
GrowBranchBody ==
  /\ treePc = "grow"
  /\ stack # <<>>
  /\ Top.phase = "enter"
  /\ LET f == Top
         end == EndOf(f.id, f.start, f.length)
         isTrunk == f.currentDepth = treeParams.depth
         segmentParticles == SegmentParticles(f.length, f.radius, isTrunk)
     IN
     IF segmentParticles.kind = "Infinity"
       THEN \* for (let i = 0; i < Infinity; i++) does not end: it pushes until memory runs out
            /\ treePc' = "hang"
            /\ UNCHANGED <<stack, woodBuffer, blossomBuffer, leafNodes>>
       ELSE /\ treePc' = treePc
            /\ woodBuffer' =
                 AddRun(woodBuffer,
                        IF segmentParticles.kind = "NaN" THEN 0 ELSE segmentParticles.n,
                        end.nan)
            /\ IF f.currentDepth > 0
                 THEN /\ \E branchCount \in BranchCounts(isTrunk) :
                           stack' = SetTop([f EXCEPT !.phase = "recurse", !.end = end,
                                                     !.branchCount = branchCount])
                      /\ UNCHANGED <<blossomBuffer, leafNodes>>
                 ELSE /\ leafNodes' = Append(leafNodes, end)
                      /\ blossomBuffer' = AddClusters(blossomBuffer, clusters, end.nan)
                      /\ stack' = SetTop([f EXCEPT !.phase = "recurse", !.end = end])
  /\ UNCHANGED <<treeParams, treeData, growCalls>>
  /\ UNCHANGED <<animVars, photoVars, galleryVars, sakuraVars>>

\* One turn of the recursion loop: growBranch(end, nextDir, nextLength, nextRadius, currentDepth - 1)
GrowBranchRecurse ==
  /\ treePc = "grow"
  /\ stack # <<>>
  /\ Top.phase = "recurse"
  /\ Top.i < Top.branchCount
  /\ LET f == Top
         nextLength == Mul(f.length, Num(82, 100))
         nextRadius == Mul(f.radius, Num(65, 100))
     IN stack' = Append(SetTop([f EXCEPT !.i = f.i + 1]),
                        Call(growCalls + 1, f.end, nextLength, nextRadius,
                             ChildDepth(f.currentDepth)))
  /\ growCalls' = growCalls + 1
  /\ UNCHANGED <<treePc, treeParams, woodBuffer, blossomBuffer, leafNodes, treeData>>
  /\ UNCHANGED <<animVars, photoVars, galleryVars, sakuraVars>>

GrowBranchReturn ==
  /\ treePc = "grow"
  /\ stack # <<>>
  /\ Top.phase = "recurse"
  /\ Top.i = Top.branchCount
  /\ stack' = SubSeq(stack, 1, Len(stack) - 1)
  /\ treePc' = IF Len(stack) = 1 THEN "return" ELSE "grow"
  /\ UNCHANGED <<treeParams, woodBuffer, blossomBuffer, leafNodes, treeData, growCalls>>
  /\ UNCHANGED <<animVars, photoVars, galleryVars, sakuraVars>>

GenerateTreeReturn ==
  /\ treePc = "return"
  /\ treeData' = [wood |-> toData(woodBuffer), blossoms |-> toData(blossomBuffer),
                  leafNodes |-> leafNodes]
  /\ treePc' = "done"
  /\ UNCHANGED <<treeParams, stack, woodBuffer, blossomBuffer, leafNodes, growCalls>>
  /\ UNCHANGED <<animVars, photoVars, galleryVars, sakuraVars>>

NoTreeData == [wood |-> EmptyBuffer, blossoms |-> EmptyBuffer, leafNodes |-> <<>>]

InitTree ==
  /\ treePc = "idle"
  /\ treeParams = [depth |-> 0, branchLength |-> Num(0, 1),
                   startPos |-> [id |-> 0, nan |-> FALSE]]
  /\ stack = <<>>
  /\ woodBuffer = EmptyBuffer
  /\ blossomBuffer = EmptyBuffer
  /\ leafNodes = <<>>
  /\ treeData = NoTreeData
  /\ growCalls = 0

(***************************************************************************)
(* createPhotoData                                                         *)
(***************************************************************************)
MaxLeaves == 4
MaxCount == 5

\* The leaf node lists passed in: the ends of the first n leaf calls, as generateTree
\* collects them (one Vector3 per leaf call, n = 0 for the empty list).
LeafNodeInputs == { [k \in 1 .. n |-> [id |-> k, nan |-> FALSE]] : n \in 0 .. MaxLeaves }

\* count: a non-negative integer.
CountInputs == 0 .. MaxCount

Min(a, b) == IF a < b THEN a ELSE b
Max(a, b) == IF a > b THEN a ELSE b

\* Array.prototype.slice(start, end) on integers: a negative index counts from the
\* end, both are clamped to the length.
Slice(s, start, end) ==
  LET len == Len(s)
      from == IF start < 0 THEN Max(len + start, 0) ELSE Min(start, len)
      to == IF end < 0 THEN Max(len + end, 0) ELSE Min(end, len)
  IN SubSeq(s, from + 1, to)

ShuffleOrders_WithRepeats(n) == [1 .. n -> 1 .. n]

\* [...leafNodes].sort(() => 0.5 - Math.random()): sort rearranges the elements of
\* the copy; with a random comparator the order is any order of the n elements.
ShuffleOrders(n) == { f \in [1 .. n -> 1 .. n] : \A i, j \in 1 .. n : f[i] = f[j] => i = j }

\* One photos.push of the forEach: index is the 0-based position in chosenNodes.
\* rotation and targetSpaceRot are fresh random draws and are left out; targetSpacePos
\* is drawn as in PhotoTargetSpacePos below.
Photo(node, index) ==
  [id |-> index, position |-> [node |-> node, dy |-> -10], url |-> index + 420]

createPhotoData(nodes, count, order) ==
  IF Len(nodes) = 0 THEN <<>>
  ELSE LET safeCount == Min(count, Len(nodes))
           sorted == [k \in 1 .. Len(nodes) |-> nodes[order[k]]]
           chosenNodes == Slice(sorted, 0, safeCount)
       IN [k \in 1 .. Len(chosenNodes) |-> Photo(chosenNodes[k], k - 1)]

(***************************************************************************)
(* Galaxy target positions: getRandomSpacePos and createPhotoData's        *)
(* targetSpacePos.  A Math.random() result is u/RandSteps with u in        *)
(* 0..RandSteps-1; lengths are in 1/RandSteps; sines and cosines are in    *)
(* fifths, drawn among the angles where both are rational; a position is   *)
(* in 1/(25*RandSteps).                                                    *)
(***************************************************************************)
RandSteps == 4

RandomInputs == 0 .. RandSteps - 1

randomRange_NoMin(min, max, u) == u * (max - min)

\* Math.random() * (max - min) + min
randomRange(min, max, u) == u * (max - min) + RandSteps * min

\* randomRange(-1, 1) values v (never 1) with a rational sine of Math.acos(v).
CosPhiInputs == {-5, -4, -3, 0, 3, 4}

\* Math.sin(Math.acos(v)) = sqrt(1 - v^2), in fifths.
SinAcos(v) == CASE v \in {-5, 5} -> 0 [] v \in {-4, 4} -> 3 [] v \in {-3, 3} -> 4 [] OTHER -> 5

\* <<Math.cos(theta), Math.sin(theta)>> for theta in [0, 2 pi), in fifths.
ThetaInputs ==
  { <<5, 0>>, <<4, 3>>, <<3, 4>>, <<0, 5>>, <<-3, 4>>, <<-5, 0>>, <<-4, -3>>, <<0, -5>>, <<3, -4>> }

\* new THREE.Vector3(r sin(phi) cos(theta), r sin(phi) sin(theta), r cos(phi))
SphericalPos(r, cosPhi, theta) ==
  <<r * SinAcos(cosPhi) * theta[1], r * SinAcos(cosPhi) * theta[2], r * cosPhi * 5>>

getRandomSpacePos(u, cosPhi, theta) == SphericalPos(randomRange(80, 200, u), cosPhi, theta)

\* createPhotoData: r = randomRange(100, 200), targetSpacePos by the same formula.
targetSpacePos(u, cosPhi, theta) == SphericalPos(randomRange(100, 200, u), cosPhi, theta)

\* woodBuffer.add(pos, getRandomSpacePos(), ...) and blossomBuffer.add(p, getRandomSpacePos(), ...)
GetRandomSpacePos ==
  \E u \in RandomInputs, cosPhi \in CosPhiInputs, theta \in ThetaInputs :
    /\ spacePos' = [kind |-> "particle", pos |-> getRandomSpacePos(u, cosPhi, theta)]
    /\ UNCHANGED <<animVars, treeVars, galleryVars, sakuraVars, photoPc, photoArgs, photos>>

PhotoTargetSpacePos ==
  \E u \in RandomInputs, cosPhi \in CosPhiInputs, theta \in ThetaInputs :
    /\ spacePos' = [kind |-> "photo", pos |-> targetSpacePos(u, cosPhi, theta)]
    /\ UNCHANGED <<animVars, treeVars, galleryVars, sakuraVars, photoPc, photoArgs, photos>>

CreatePhotoData ==
  \E nodes \in LeafNodeInputs, count \in CountInputs :
    \E order \in ShuffleOrders(Len(nodes)) :
      /\ photoArgs' = [leafNodes |-> nodes, count |-> count]
      /\ photos' = createPhotoData(nodes, count, order)
      /\ photoPc' = "done"
      /\ UNCHANGED <<animVars, treeVars, galleryVars, sakuraVars, spacePos>>

InitPhotos ==
  /\ photoPc = "idle"
  /\ photoArgs = [leafNodes |-> <<>>, count |-> 0]
  /\ photos = <<>>
  /\ spacePos = [kind |-> "none", pos |-> <<0, 0, 0>>]

(***************************************************************************)
(* Scene's useMemo, by the data it returns                                 *)
(***************************************************************************)
\* The random directions a generateTree call draws for its branches: two calls
\* that draw differently end their branches at different points.
DrawInputs == {1, 2}

\* The result of a generateTree call of depth 1 (branchLength 0.04) whose trunk drew
\* branchCount branches with the directions `draw`: the trunk is call 1, the
\* branches are calls 2 .. branchCount + 1, each a leaf.
GeneratedTree(draw, branchCount) ==
  LET trunk == SegmentParticles(Num(4, 100), Num(10, 1), TRUE).n
      branch == SegmentParticles(Mul(Num(4, 100), Num(82, 100)),
                                 Mul(Num(10, 1), Num(65, 100)), FALSE).n
  IN [wood |-> toData(AddRun(EmptyBuffer, trunk + branchCount * branch, FALSE)),
      blossoms |-> toData(AddRun(EmptyBuffer,
                                 branchCount * clusters * particlesPerCluster, FALSE)),
      leafNodes |-> [k \in 1 .. branchCount |-> [id |-> k + 1, nan |-> FALSE, draw |-> draw]]]

\* The results generateTree({ depth, branchLength, startPos }) can return.
TreeInputs == { GeneratedTree(d, b) : d \in DrawInputs, b \in BranchCounts(TRUE) }

\* The argument of createPhotoData: the leafNodes of a generateTree call of its own
\* (line 32), not those of the call whose result is treeData (line 31).
PhotosOf(first, second) == second.leafNodes

\* The function of the useMemo: treeData is what the SakuraTrees render, photos what
\* the gallery shows.
SceneUseMemo ==
  \E first \in TreeInputs, second \in TreeInputs :
    LET nodes == PhotosOf(first, second)
    IN \E order \in ShuffleOrders(Len(nodes)) :
         /\ photoPc = "idle"
         /\ treeData' = first
         /\ photoArgs' = [leafNodes |-> nodes, count |-> 16]
         /\ photos' = createPhotoData(nodes, 16, order)
         /\ photoPc' = "done"
         /\ UNCHANGED <<treePc, treeParams, stack, woodBuffer, blossomBuffer, leafNodes, growCalls>>
         /\ UNCHANGED <<animVars, galleryVars, sakuraVars, spacePos>>

(***************************************************************************)
(* SakuraTree: the two particle sets.  Both are given the object           *)
(* SakuraShaderMaterial as material arguments, and a ShaderMaterial keeps  *)
(* the uniforms object it is given: the two materials write the same       *)
(* uniforms.                                                               *)
(***************************************************************************)
Modes == {"wood", "blossom"}

\* The ParticleData of a small tree: treeData.wood and treeData.blossoms.
ParticleInputs(mode) ==
  IF mode = "wood" THEN toData(AddRun(EmptyBuffer, 2, FALSE))
  ELSE toData(AddRun(EmptyBuffer, 3, FALSE))

\* rotations[i] = Math.random() * Math.PI * 2: two of the sequences it can draw.
RotationInputs(count) == << [i \in 1 .. count |-> i], [i \in 1 .. count |-> count + 1 - i] >>

\* state.clock.elapsedTime on a frame.
ClockInputs == {1, 2}

NoGeometry ==
  [mounted |-> FALSE, position |-> <<>>, aTargetPos |-> <<>>, color |-> <<>>, aSize |-> <<>>,
   aRotation |-> <<>>]

\* The geometry useMemo: the attributes wrap the arrays of data, aRotation is new.
BuildGeometry(data, rotations) ==
  [mounted |-> TRUE, position |-> data.positions, aTargetPos |-> data.targetPositions,
   color |-> data.colors, aSize |-> data.sizes, aRotation |-> rotations]

\* The first render of the two SakuraTrees, within the commit that mounts Scene's
\* children, and their effects, which set uTexture: wood first, then blossom.
SakuraTreeRenders ==
  /\ sceneMounted
  /\ \A mode \in Modes : ~geometry[mode].mounted
  /\ \E draw \in {1, 2} :
       geometry' = [mode \in Modes |->
                      BuildGeometry(ParticleInputs(mode),
                                    RotationInputs(Len(ParticleInputs(mode).sizes))[draw])]
  /\ uniforms' = [uniforms EXCEPT !.uTexture = "petal"]
  /\ UNCHANGED <<animVars, treeVars, photoVars, galleryVars>>

SakuraFrame_MovesParticles(geo, u, mode, time, exp, hueValue) ==
  [geometry |-> [geo EXCEPT !.position[1] = @ + time],
   uniforms |-> [u EXCEPT !.uTime = time, !.uExpansion = exp, !.uHueOffset = hueValue,
                          !.uIsWood = IF mode = "wood" THEN 1 ELSE 0]]

\* The useFrame callback of a SakuraTree: four uniform writes.
SakuraFrame(geo, u, mode, time, exp, hueValue) ==
  [geometry |-> geo,
   uniforms |-> [u EXCEPT !.uTime = time, !.uExpansion = exp, !.uHueOffset = hueValue,
                          !.uIsWood = IF mode = "wood" THEN 1 ELSE 0]]

SakuraUseFrame(mode) ==
  \E time \in ClockInputs :
    LET after == SakuraFrame(geometry[mode], uniforms, mode, time, expansion, hue) IN
    /\ geometry[mode].mounted
    /\ geometry' = [geometry EXCEPT ![mode] = after.geometry]
    /\ uniforms' = after.uniforms
    /\ UNCHANGED <<animVars, treeVars, photoVars, galleryVars>>

SakuraUseFrames == \E mode \in Modes : SakuraUseFrame(mode)

\* The vertex shader's branch on the uniform: if (uExpansion < 0.5) sway, else orbit.
ShaderMode(uExpansion) == IF 2 * uExpansion < ExpUnit THEN "sway" ELSE "orbit"

InitSakura ==
  /\ geometry = [mode \in Modes |-> NoGeometry]
  /\ uniforms = [uTime |-> 0, uExpansion |-> 0, uHueOffset |-> 0, uIsWood |-> 0,
                 uTexture |-> "null"]

(***************************************************************************)
(* Specifications                                                          *)
(***************************************************************************)
\* camera.position.set(0, -10, 60) about the target (0, 10, 0): polar angle
\* acos(-20 / sqrt(20^2 + 60^2)) = 1.8925 rad, 1060/560 to the nearest unit.
InitialPolar == [pi |-> 0, r |-> 1060]

InitAnim ==
  /\ currentGesture = "NONE"
  /\ handPosition = [x |-> 50, y |-> 50]
  /\ hudData = [fingers |-> 0, gesture |-> "NONE"]
  /\ status = "Initializing..."
  /\ lastUpdate = [fingerCount |-> 0, gesture |-> "NONE", position |-> [x |-> 50, y |-> 50],
                   isTracking |-> FALSE, delivered |-> FALSE]
  /\ expansion = 0
  /\ hue = 0
  /\ azimuth = 0
  /\ polar = InitialPolar
  /\ frames = 0
  /\ lastFrame = [gesture |-> "NONE", handPos |-> [x |-> 50, y |-> 50], q |-> 0]
  /\ sustain = 0
  /\ nonFinite = {}
  /\ handPosKind = "num"
  /\ lastTracked = [x |-> 50, y |-> 50]
  /\ isRevealed = FALSE
  /\ sceneMounted = FALSE
  /\ generateTreeCalls = 0
  /\ createPhotoDataCalls = 0
  /\ trackerPc = "off"
  /\ mediaPipe = "unknown"

InitGallery ==
  /\ polaroids = <<>>
  /\ photoFrames = 0

Init == InitAnim /\ InitTree /\ InitPhotos /\ InitGallery /\ InitSakura

Next ==
  \/ SceneMount
  \/ StartTracker
  \/ OnResultsHand(FingerInputs, PalmCentre)
  \/ OnResultsNoHand
  \/ UseFrame

Spec == Init /\ [][Next]_vars

\* The same handlers, run with one neutral pose and the pointer moving over the
\* screen, and the mouse on the orbit controls.
NextCamera ==
  \/ SceneMount
  \/ StartTracker
  \/ OnResultsHand(FingerNeutral, PalmInputs)
  \/ OnResultsNoHand
  \/ UseFrame
  \/ OrbitDrag

SpecCamera == Init /\ [][NextCamera]_vars

\* The gesture scenario with one malformed input: a frame delta or a palm landmark x.
NextMalformed ==
  \/ SceneMount
  \/ StartTracker
  \/ OnResultsHand(FingerInputs, PalmCentre)
  \/ OnResultsMalformed(FingerNeutral)
  \/ OnResultsNoHand
  \/ UseFrame
  \/ UseFrameMalformed

SpecMalformed == Init /\ [][NextMalformed]_vars

\* Gestures and pointer positions together: two poses (OPEN_HAND, ONE_FINGER), the
\* palm at the centre or in a corner, the hand lost and found again.
HandoffPoses == { <<TRUE, TRUE, TRUE, TRUE, TRUE>>, <<FALSE, TRUE, FALSE, FALSE, FALSE>> }

HandoffPalms == { <<50, 50>>, <<0, 100>> }

NextHandoff ==
  \/ SceneMount
  \/ StartTracker
  \/ OnResultsHand(HandoffPoses, HandoffPalms)
  \/ OnResultsNoHand
  \/ UseFrame

SpecHandoff == Init /\ [][NextHandoff]_vars

\* The particle sets with the gestures that change what their frames copy.
NextParticles ==
  \/ SceneMount
  \/ StartTracker
  \/ OnResultsHand(HandoffPoses, PalmCentre)
  \/ UseFrame
  \/ SakuraTreeRenders
  \/ SakuraUseFrames

SpecParticles == Init /\ [][NextParticles]_vars

\* The data Scene's useMemo returns, for every pair of trees it can generate.
NextMemo == SceneUseMemo

SpecMemo == Init /\ [][NextMemo]_vars

\* The poses of the gestures the gallery reacts to: OPEN_HAND and TWO_FINGERS.
GalleryPoses == { <<TRUE, TRUE, TRUE, TRUE, TRUE>>, <<FALSE, TRUE, TRUE, FALSE, FALSE>> }

\* The gallery with the gestures that drive it.
NextGallery ==
  \/ SceneMount
  \/ StartTracker
  \/ OnResultsHand(GalleryPoses, PalmCentre)
  \/ UseFrame
  \/ GalleryFrame

SpecGallery == Init /\ [][NextGallery]_vars

\* Frames of 0.125 s and 0.25 s: the expansion factor moves within [0, 1].
ModeDeltas == {1, 2}

UseFrameModes == \E q \in ModeDeltas : Frame(q)

\* The gallery and the expansion factor the shader is given, with those frames.
NextModes ==
  \/ SceneMount
  \/ StartTracker
  \/ OnResultsHand(GalleryPoses, PalmCentre)
  \/ UseFrameModes
  \/ GalleryFrame

SpecModes == Init /\ [][NextModes]_vars

\* The gallery with its image loads, the reveal gesture on and off.
NextTexture ==
  \/ SceneMount
  \/ StartTracker
  \/ OnResultsHand(GalleryPoses, PalmCentre)
  \/ TextureLoads
  \/ TextureErrors
  \/ GalleryFrame

SpecTexture == Init /\ [][NextTexture]_vars

\* One call of generateTree, from its arguments to its return value.
NextTree ==
  \/ GenerateTree
  \/ GrowBranchBody
  \/ GrowBranchRecurse
  \/ GrowBranchReturn
  \/ GenerateTreeReturn

SpecTree == Init /\ [][NextTree]_vars

\* Calls of createPhotoData.
NextPhotos == CreatePhotoData

SpecPhotos == Init /\ [][NextPhotos]_vars

\* The draws of galaxy target positions.
NextShell == GetRandomSpacePos \/ PhotoTargetSpacePos

SpecShell == Init /\ [][NextShell]_vars

(***************************************************************************)
(* Properties of generateTree and ParticleBuffer                           *)
(***************************************************************************)
\* The k-th growBranch call on the stack was made with depth - (k - 1), never below 0,
\* and only a call with currentDepth > 0 has children.
RecursionBounded ==
  /\ Len(stack) <= treeParams.depth + 1
  /\ \A k \in 1 .. Len(stack) :
       /\ stack[k].currentDepth = treeParams.depth - (k - 1)
       /\ stack[k].currentDepth >= 0
       /\ stack[k].branchCount <= 4
       /\ stack[k].branchCount > 0 => stack[k].currentDepth > 0

\* The most growBranch calls a tree of the given depth can make: 1 trunk, up to 4
\* branches on it, up to 3 on every other call: 1 + 4 + 4*3 + ... = 2 * 3^depth - 1.
RECURSIVE CallBound(_)
CallBound(d) == IF d <= 0 THEN 1 ELSE 3 * CallBound(d - 1) + 2

RECURSIVE Recursing(_)
Recursing(k) ==
  IF k = 0 THEN 0 ELSE Recursing(k - 1) + (IF stack[k].phase = "recurse" THEN 1 ELSE 0)

\* The steps generateTree can still take: 3 for every call not yet made, 2 or 1 for
\* every call on the stack, 1 for the return.
Rank ==
  3 * (CallBound(treeParams.depth) - growCalls) + 2 * Len(stack) - Recursing(Len(stack))
    + (IF treePc = "done" THEN 0 ELSE 1)

\* generateTree has a step to take: a growBranch call at its entry runs its body
\* (whose guard is no more than that), or one of the other steps is enabled.
CanStep ==
  \/ (treePc = "grow" /\ stack # <<>> /\ Top.phase = "enter")
  \/ ENABLED (GrowBranchRecurse \/ GrowBranchReturn \/ GenerateTreeReturn)

\* C1: for valid parameters the recursion is bounded by the depth parameter (every
\* child call gets currentDepth - 1, calls recurse only while currentDepth > 0, at
\* most 4 children each), and generateTree returns: it is never stuck before its
\* return, and every step takes one off the bounded number of steps left.
C1_Terminates ==
  /\ [](ValidParams(treeParams) =>
          /\ RecursionBounded
          /\ Rank >= 0
          /\ treePc \in {"grow", "return"} => CanStep)
  /\ [][(ValidParams(treeParams) /\ treePc # "idle") => Rank' < Rank]_vars

\* C1 witness: a call with depth >= 1 has returned after recursing: the trunk made
\* at least 3 child calls, every one of them a leaf call that recursed no further.
C1_Witness ==
  /\ treePc = "done"
  /\ ValidParams(treeParams)
  /\ treeParams.depth >= 1
  /\ growCalls >= 4
  /\ Len(leafNodes) = growCalls - 1

\* The four attribute arrays of a buffer describe the same number of particles.
SameCount(buf) ==
  LET N == Len(buf.sizes) IN
  /\ Len(buf.positions) = 3 * N
  /\ Len(buf.targetPositions) = 3 * N
  /\ Len(buf.colors) = 3 * N

\* Entries 3i-2..3i of positions, targetPositions and colors and entry i of sizes of
\* a returned set are the values of the i-th add call (the position may be NaN).
IndexAligned(data) ==
  \A i \in 1 .. Len(data.sizes) :
    /\ data.sizes[i] = Fround(Token(i, 10))
    /\ \A c \in 1 .. 3 :
         /\ data.positions[3 * (i - 1) + c] \in {Fround(Token(i, c)), NaNValue}
         /\ data.targetPositions[3 * (i - 1) + c] = Fround(Token(i, 3 + c))
         /\ data.colors[3 * (i - 1) + c] = Fround(Token(i, 6 + c))

\* C2: after any sequence of add calls the arrays of a buffer hold 3N, 3N, 3N and N
\* entries, and so do the wood and blossom sets generateTree returns, whose entries
\* at 3i-2..3i / i belong to the particle of the i-th add call.
C2_ParallelArrays ==
  /\ SameCount(woodBuffer)
  /\ SameCount(blossomBuffer)
  /\ SameCount(treeData.wood)
  /\ SameCount(treeData.blossoms)
  /\ IndexAligned(treeData.wood)
  /\ IndexAligned(treeData.blossoms)
  /\ treePc = "done" =>
       /\ Len(treeData.wood.sizes) = Len(woodBuffer.sizes)
       /\ Len(treeData.blossoms.sizes) = Len(blossomBuffer.sizes)

\* C2 witness: generateTree returned wood particles and the blossoms of several leaves.
C2_Witness ==
  /\ treePc = "done"
  /\ Len(treeData.wood.sizes) > 1
  /\ Len(treeData.blossoms.sizes) > clusters * particlesPerCluster

\* C10: generateTree runs to a result, or into a loop without end, only on valid
\* parameters; invalid ones are rejected.
C10_InvalidRejected == treePc \in {"return", "done", "hang"} => ValidParams(treeParams)

(***************************************************************************)
(* Properties of createPhotoData                                           *)
(***************************************************************************)
\* C3: createPhotoData(leafNodes, count) returns exactly min(count, leafNodes.length)
\* photos, each hung on an element of leafNodes and no two on the same element, and
\* no photo at all when leafNodes is empty.
C3_PhotoSample ==
  photoPc = "done" =>
    /\ Len(photos) = Min(photoArgs.count, Len(photoArgs.leafNodes))
    /\ \A k \in 1 .. Len(photos) :
         \E i \in 1 .. Len(photoArgs.leafNodes) :
           photos[k].position.node = photoArgs.leafNodes[i]
    /\ \A k, l \in 1 .. Len(photos) :
         photos[k].position.node = photos[l].position.node => k = l
    /\ Len(photoArgs.leafNodes) = 0 => photos = <<>>

\* C3 witness: more photos were asked for than there are leaf nodes, and the call
\* returned one photo per leaf node, not in the order of leafNodes.
C3_Witness ==
  /\ photoPc = "done"
  /\ Len(photoArgs.leafNodes) = 3
  /\ photoArgs.count > 3
  /\ Len(photos) = 3
  /\ photos[1].position.node # photoArgs.leafNodes[1]

(***************************************************************************)
(* Properties of the per-frame animation state                             *)
(***************************************************************************)
IsFrameStep == frames' = frames + 1

InDeadZone(pos) == Abs(pos.x - centerX) <= deadZone /\ Abs(pos.y - centerY) <= deadZone

\* C4: the expansion factor stays within [0,1] in every reachable state.
C4_ExpansionInUnitInterval == 0 <= expansion /\ expansion <= ExpUnit

\* C5: from 0, with OPEN_HAND held on every frame and one fixed frame delta, each
\* frame strictly increases the expansion factor (until it has reached 1), moves it
\* no further from 1, and never takes it past 1.
C5_SustainedExpand ==
  [][ (IsFrameStep /\ sustain' > 0) =>
        /\ expansion' <= ExpUnit
        /\ (expansion < ExpUnit => expansion' > expansion)
        /\ ExpUnit - expansion' <= ExpUnit - expansion ]_vars

\* C6: the hue offset never decreases; a frame whose gesture is ONE_FINGER raises it
\* by exactly delta*0.5 (strictly), and every other step leaves it as it is.
C6_HueMonotone ==
  [][ /\ hue' >= hue
      /\ (IsFrameStep /\ currentGesture = "ONE_FINGER") =>
            (hue' = hue + lastFrame'.q /\ hue' > hue)
      /\ ~(IsFrameStep /\ currentGesture = "ONE_FINGER") => hue' = hue ]_vars

\* C6 witness: the latest frame ran after the ONE_FINGER gesture was released and
\* the hue offset accumulated before is still there.
C6_Witness == lastFrame.q > 0 /\ lastFrame.gesture # "ONE_FINGER" /\ hue > 0

\* C7: after every frame the polar angle written to the controls lies within
\* [0.5, pi - 0.5]: r/560 in [280, 1479]/560, or pi + r/560 with r in [-1479, -280].
C7_PolarClamped ==
  [][ IsFrameStep =>
        IF polar'.pi = 0
          THEN Half <= polar'.r /\ polar'.r <= PiFloor - Half
          ELSE Half - PiFloor <= polar'.r /\ polar'.r <= -Half ]_vars

\* C7 witness: a frame with the hand low on the screen drove the polar angle into
\* the upper bound pi - 0.5.
C7_Witness ==
  /\ lastFrame.q > 0
  /\ polar = PolarHigh
  /\ lastFrame.handPos.y > centerY + deadZone
  /\ azimuth # 0

\* C8: a frame whose pointer is within 0.15 of the centre on both axes leaves the
\* azimuth and the polar angle unchanged.
C8_DeadZone ==
  [][ (IsFrameStep /\ InDeadZone(handPosition)) =>
        (azimuth' = azimuth /\ polar' = polar) ]_vars

\* C9: an update with isTracking = false keeps the pointer position of the last
\* tracking update and sets the gesture to NONE.
C9_LostKeepsPosition ==
  [][ (frames' = frames /\ lastUpdate'.delivered /\ ~lastUpdate'.isTracking) =>
        (handPosition' = handPosition /\ currentGesture' = "NONE") ]_vars

\* C9 witness: the hand was lost while the pointer was away from the centre; the
\* position kept is not the (0.5, 0.5) the not-tracking update carried.
C9_Witness ==
  /\ lastUpdate.delivered
  /\ ~lastUpdate.isTracking
  /\ handPosition # lastUpdate.position
  /\ currentGesture = "NONE"

\* C11: whatever single malformed input (NaN or infinite frame delta or pointer
\* coordinate) a run carries, expansion, hue, background colour and camera angles
\* hold finite values after that frame and after every later frame.
C11_NaNSafe == nonFinite = {}

(***************************************************************************)
(* Properties of the galaxy target positions                               *)
(***************************************************************************)
\* The squared distance of a position from the origin, in (1/(25*RandSteps))^2.
DistSq(pos) == pos[1] * pos[1] + pos[2] * pos[2] + pos[3] * pos[3]

InShell(pos, inner, outer) ==
  /\ (25 * RandSteps * inner) * (25 * RandSteps * inner) <= DistSq(pos)
  /\ DistSq(pos) <= (25 * RandSteps * outer) * (25 * RandSteps * outer)

\* C12: every galaxy target position drawn for a wood or blossom particle lies at a
\* distance in [80, 200] from the origin, every one drawn for a photo in [100, 200].
C12_TargetInShell ==
  /\ spacePos.kind = "particle" => InShell(spacePos.pos, 80, 200)
  /\ spacePos.kind = "photo" => InShell(spacePos.pos, 100, 200)

\* C12 witness: a photo target off every axis, on the inner radius 100 of its shell.
C12_Witness ==
  /\ spacePos.kind = "photo"
  /\ \A c \in 1 .. 3 : spacePos.pos[c] # 0
  /\ DistSq(spacePos.pos) = (25 * RandSteps * 100) * (25 * RandSteps * 100)

(***************************************************************************)
(* Properties of mounting: generation, the tracker, the reveal flag        *)
(***************************************************************************)
\* C13: tree and photo-anchor generation runs at scene setup only: once Scene is
\* mounted, generateTree has been run once and createPhotoData once, whatever frames
\* and gesture or pointer updates followed.
C13_GeneratedOnce ==
  sceneMounted => (generateTreeCalls = 1 /\ createPhotoDataCalls = 1)

\* C14: when the MediaPipe globals are missing the tracker only reports the error
\* status and never calls onUpdate: the gesture stays NONE and the pointer (0.5, 0.5)
\* on every frame, and expansion, hue, reveal flag and camera angles never change.
C14_TrackerAbsent ==
  mediaPipe = "missing" =>
    /\ trackerPc = "error"
    /\ status = "Error: MediaPipe Libraries not found"
    /\ ~lastUpdate.delivered
    /\ currentGesture = "NONE"
    /\ handPosition = [x |-> centerX, y |-> centerY]
    /\ ~isRevealed
    /\ expansion = 0
    /\ hue = 0
    /\ azimuth = 0
    /\ polar = InitialPolar

\* C14 witness: the libraries were missing and the scene has rendered all its frames.
C14_Witness == mediaPipe = "missing" /\ trackerPc = "error" /\ frames = MaxFrames

\* C19: the reveal flag is true exactly when the current gesture is TWO_FINGERS,
\* whatever it was before, and a frame with the flag set leaves the expansion factor
\* and the hue offset as they are.
C19_RevealFlag ==
  [][ /\ sceneMounted' => (isRevealed' <=> currentGesture' = "TWO_FINGERS")
      /\ (IsFrameStep /\ isRevealed) => (expansion' = expansion /\ hue' = hue) ]_vars

\* C19 witness: a frame ran with the flag set after the expansion factor and the hue
\* offset had been raised, and the flag fell with the next gesture.
C19_Witness ==
  /\ lastFrame.gesture = "TWO_FINGERS"
  /\ lastFrame.q > 0
  /\ expansion > 0
  /\ hue > 0
  /\ currentGesture # "TWO_FINGERS"
  /\ ~isRevealed

\* C16: on a frame whose gesture is neither FIST nor OPEN_HAND the expansion target
\* is still the one of the most recent FIST or OPEN_HAND frame: when the frame before
\* ran with OPEN_HAND and the expansion factor has not reached 1, this frame moves
\* the expansion factor further towards 1.
C16_TargetHeld ==
  [][ ( /\ IsFrameStep
        /\ currentGesture \notin {"FIST", "OPEN_HAND"}
        /\ lastFrame.gesture = "OPEN_HAND"
        /\ lastFrame.q > 0
        /\ expansion < ExpUnit ) => expansion' > expansion ]_vars

(***************************************************************************)
(* Properties of the joystick camera                                       *)
(***************************************************************************)
\* sign(d) * ((|d| - 0.15) / 0.35) * maxRate * delta in 1/560 rad, for a pointer
\* offset d in 1/100 outside the dead zone, maxRate in halves of a rad/s and delta
\* q/8 s; 0 inside the dead zone.
RateChange(d, maxRateHalves, q) ==
  IF Abs(d) > 15
    THEN (Sign(d) * (Abs(d) - 15) * maxRateHalves * q * 560) \div (35 * 2 * 8)
    ELSE 0

Shifted(angle, change) == [pi |-> angle.pi, r |-> angle.r + change]

IsGalleryStep == photoFrames' = photoFrames + 1

Transform(p) == <<p.position, p.rotation, p.scale>>

\* C15: a photo shows the placeholder material until its load has completed and the
\* loaded texture from then on; a failed load stays failed, changes nothing of the
\* photo or of the status shown, and leaves the frames running; and a frame moves a
\* photo to the same transform whether its texture is set or not.
C15_FireAndForget ==
  /\ [](\A i \in 1 .. Len(polaroids) :
          /\ Material(polaroids[i]) =
               IF polaroids[i].load = "loaded" THEN "map" ELSE "placeholder"
          /\ \A q \in DeltaInputs, sine \in FloatInputs, tex \in {"null", "loaded"} :
               Transform(PolaroidUseFrame([polaroids[i] EXCEPT !.texture = tex],
                                          PhotoInputs[i], i - 1, isRevealed, expansion,
                                          q, sine))
                 = Transform(PolaroidUseFrame(polaroids[i], PhotoInputs[i], i - 1,
                                              isRevealed, expansion, q, sine)))
  /\ []((sceneMounted /\ photoFrames < MaxPhotoFrames) => ENABLED GalleryFrame)
  /\ [][\A i \in 1 .. Len(polaroids) :
          /\ polaroids[i].load = "failed" =>
               (polaroids'[i].load = "failed" /\ polaroids'[i].texture = "null")
          /\ (polaroids[i].load = "pending" /\ polaroids'[i].load = "failed") =>
               /\ Transform(polaroids'[i]) = Transform(polaroids[i])
               /\ polaroids'[i].texture = "null"
               /\ UNCHANGED <<status, sceneMounted, photoFrames>>]_vars

\* C15 witness: one photo's load has failed and one's has completed, and the frames
\* have moved the photo without a texture towards its revealed transform.
C15_Witness ==
  /\ photoFrames > 0
  /\ \E i, j \in 1 .. Len(polaroids) :
       /\ polaroids[i].load = "failed"
       /\ Material(polaroids[i]) = "placeholder"
       /\ polaroids[i].target = "revealed"
       /\ polaroids[i].scale > 3 * GalUnit
       /\ polaroids[j].load = "loaded"
       /\ Material(polaroids[j]) = "map"

\* C18: on every gallery frame every photo takes the revealed target (scale 2.5) when
\* the reveal flag is set, whatever the expansion factor; otherwise the galaxy
\* target (scale 0.5) when the expansion factor is above 0.5; otherwise the tree
\* target (scale 0.3); and its transform moves towards that one target.
C18_TargetSelection ==
  [][ IsGalleryStep =>
        \A i \in 1 .. Len(polaroids) :
          LET chosen == IF isRevealed THEN "revealed"
                        ELSE IF 2 * expansion > ExpUnit THEN "galaxy"
                        ELSE "tree"
              scale == IF chosen = "revealed" THEN 25 ELSE IF chosen = "galaxy" THEN 5 ELSE 3
              target == PolaroidTarget(PhotoInputs[i], i - 1, chosen)
          IN /\ polaroids'[i].target = chosen
             /\ target.scale = scale
             /\ \E q \in DeltaInputs, sine \in FloatInputs :
                  Transform(polaroids'[i])
                    = Transform(Approach(polaroids[i], target, isRevealed, q, sine)) ]_vars

\* C18 witness: a frame ran with the reveal flag set while the expansion factor was
\* above 0.5, and the photo grew towards the revealed scale.
C18_Witness ==
  /\ photoFrames > 0
  /\ polaroids[1].target = "revealed"
  /\ polaroids[1].isExploded
  /\ polaroids[1].scale > 5 * GalUnit

\* C20: on every gallery frame each photo's position (with its float offset),
\* rotation and scale all move to lerp(current, target, rate * delta) with the one
\* rate 3.0 when revealed and 1.5 otherwise.
C20_SmoothingRate ==
  [][ IsGalleryStep =>
        \A i \in 1 .. Len(polaroids) :
          LET target == PolaroidTarget(PhotoInputs[i], i - 1, polaroids'[i].target)
              rate == IF isRevealed THEN 30 ELSE 15
          IN \E q \in DeltaInputs, sine \in FloatInputs :
               /\ polaroids'[i].position =
                    Lerp16(polaroids[i].position,
                           (target.pos + FloatY(isRevealed, sine)) * GalUnit, q, rate)
               /\ polaroids'[i].rotation =
                    Lerp16(polaroids[i].rotation, target.rot * GalUnit, q, rate)
               /\ polaroids'[i].scale =
                    Lerp16(polaroids[i].scale, target.scale * GalUnit, q, rate) ]_vars

(***************************************************************************)
(* Properties of the hand-off from the tracker to the frames               *)
(***************************************************************************)
\* C21 as stated: every frame computes the animation state from the gesture and the
\* pointer position carried by the latest update delivered before it, and an update
\* by itself changes nothing of the animation state.
C21_LastValueWins_AsStated ==
  [][ /\ IsFrameStep =>
           /\ expansion' = NextExpansion(lastUpdate.gesture, expansion, lastFrame'.q)
           /\ hue' = NextHue(lastUpdate.gesture, hue, lastFrame'.q)
           /\ azimuth' = NextAzimuth(azimuth, lastUpdate.position.x - centerX, lastFrame'.q)
           /\ polar' = NextPolar(polar, lastUpdate.position.y - centerY, lastFrame'.q)
      /\ lastUpdate' # lastUpdate => UNCHANGED <<expansion, hue, azimuth, polar>> ]_vars

\* C21: every frame computes the animation state from the gesture of the latest
\* update delivered before it and from the pointer position of the latest update
\* delivered with isTracking (the centre before any); an update by itself changes
\* nothing of the animation state, and nothing else of earlier updates is used.
C21_LastValueWins ==
  [][ /\ IsFrameStep =>
           /\ expansion' = NextExpansion(lastUpdate.gesture, expansion, lastFrame'.q)
           /\ hue' = NextHue(lastUpdate.gesture, hue, lastFrame'.q)
           /\ azimuth' = NextAzimuth(azimuth, lastTracked.x - centerX, lastFrame'.q)
           /\ polar' = NextPolar(polar, lastTracked.y - centerY, lastFrame'.q)
      /\ lastUpdate' # lastUpdate => UNCHANGED <<expansion, hue, azimuth, polar>> ]_vars

\* C21 witness: gestures came and went between frames, the hand was lost with the
\* pointer in a corner, and the latest frame ran with gesture NONE and that pointer.
C21_Witness ==
  /\ lastFrame.q > 0
  /\ lastFrame.gesture = "NONE"
  /\ lastFrame.handPos # [x |-> 50, y |-> 50]
  /\ lastUpdate.delivered /\ ~lastUpdate.isTracking
  /\ hue > 0
  /\ expansion > 0

(***************************************************************************)
(* Properties of the particle sets                                         *)
(***************************************************************************)
\* C22: once a particle set is mounted its position, aTargetPos, color and aSize
\* attributes are the arrays generated and they and aRotation are never written
\* again, by no frame and no gesture; a step that writes the uniforms writes uTime,
\* uExpansion, uHueOffset and uIsWood and nothing else.
C22_ParticlesImmutable ==
  /\ [](\A mode \in Modes :
          geometry[mode].mounted =>
            /\ geometry[mode].position = ParticleInputs(mode).positions
            /\ geometry[mode].aTargetPos = ParticleInputs(mode).targetPositions
            /\ geometry[mode].color = ParticleInputs(mode).colors
            /\ geometry[mode].aSize = ParticleInputs(mode).sizes
            /\ Len(geometry[mode].aRotation) = Len(geometry[mode].aSize))
  /\ [][ /\ \A mode \in Modes : geometry[mode].mounted => geometry'[mode] = geometry[mode]
         /\ (geometry' = geometry /\ uniforms' # uniforms) =>
               /\ uniforms'.uTexture = uniforms.uTexture
               /\ uniforms'.uExpansion = expansion
               /\ uniforms'.uHueOffset = hue
               /\ UNCHANGED <<animVars, treeVars, photoVars, galleryVars>> ]_vars

\* C22 witness: both sets are mounted and, after all the frames of the scene, a
\* frame of the wood set has copied a raised expansion factor and hue offset.
C22_Witness ==
  /\ geometry["wood"].mounted /\ geometry["blossom"].mounted
  /\ frames = MaxFrames
  /\ uniforms.uExpansion > 0 /\ uniforms.uHueOffset > 0
  /\ uniforms.uTime > 0 /\ uniforms.uIsWood = 1

(***************************************************************************)
(* Properties of the blossoms                                              *)
(***************************************************************************)
\* The step that runs the body of the growBranch call on top of the stack.
IsBodyStep ==
  /\ treePc = "grow" /\ stack # <<>> /\ Top.phase = "enter"
  /\ treePc' = "grow" /\ Len(stack') = Len(stack) /\ stack'[Len(stack)].phase = "recurse"

\* C23: the body of a growBranch call with currentDepth 0 appends exactly one leaf
\* node, the end of that call, and exactly 5 * 90 blossom particles; the body of a
\* call with currentDepth > 0 appends no leaf node and no blossom particle; for
\* valid parameters every body appends wood particles; nothing else writes leaf
\* nodes or blossoms, so there are always 450 blossom particles per leaf node.
C23_BlossomsAtLeaves ==
  /\ [](Len(blossomBuffer.sizes) = 450 * Len(leafNodes))
  /\ [](treePc = "done" => Len(treeData.blossoms.sizes) = 450 * Len(treeData.leafNodes))
  /\ [][ /\ (IsBodyStep /\ Top.currentDepth = 0) =>
              /\ Len(leafNodes') = Len(leafNodes) + 1
              /\ leafNodes'[Len(leafNodes')].id = Top.id
              /\ SubSeq(leafNodes', 1, Len(leafNodes)) = leafNodes
              /\ Len(blossomBuffer'.sizes) = Len(blossomBuffer.sizes) + 5 * 90
         /\ (IsBodyStep /\ Top.currentDepth > 0) =>
              (leafNodes' = leafNodes /\ blossomBuffer' = blossomBuffer)
         /\ (IsBodyStep /\ ValidParams(treeParams)) =>
              Len(woodBuffer'.sizes) > Len(woodBuffer.sizes)
         /\ (~IsBodyStep /\ treePc # "idle") =>
              (leafNodes' = leafNodes /\ blossomBuffer' = blossomBuffer) ]_vars

\* C23 witness: a tree of depth 1 has returned: the trunk gave no leaf node, each of
\* its 3 or 4 branches one, with 450 blossom particles each.
C23_Witness ==
  /\ treePc = "done"
  /\ treeParams.depth = 1
  /\ ValidParams(treeParams)
  /\ Len(treeData.leafNodes) = growCalls - 1
  /\ Len(treeData.leafNodes) >= 3
  /\ Len(treeData.blossoms.sizes) = 450 * Len(treeData.leafNodes)
  /\ \A k \in 1 .. Len(treeData.leafNodes) : treeData.leafNodes[k].id > 1

(***************************************************************************)
(* Properties of the data Scene mounts                                     *)
(***************************************************************************)
\* C24: every photo of the mounted scene hangs 10 units below a leaf node of the
\* tree whose particles are rendered (treeData).
C24_PhotosOnDisplayedTree ==
  photoPc = "done" =>
    \A k \in 1 .. Len(photos) :
      /\ photos[k].position.dy = -10
      /\ \E i \in 1 .. Len(treeData.leafNodes) :
           photos[k].position.node = treeData.leafNodes[i]

\* C25: on every gallery frame run without the reveal flag and with the expansion
\* factor in [0, 1], the photos take the galaxy target exactly when the shader, given
\* that expansion factor by the particle sets' frame, takes its orbit branch, and the
\* tree target exactly when it takes its sway branch.
C25_ModesAgree ==
  [][ (IsGalleryStep /\ ~isRevealed /\ 0 <= expansion /\ expansion <= ExpUnit) =>
        LET u == SakuraFrame(geometry["wood"], uniforms, "wood", 1, expansion, hue).uniforms
        IN \A i \in 1 .. Len(polaroids) :
             /\ ShaderMode(u.uExpansion) = "orbit" <=> polaroids'[i].target = "galaxy"
             /\ ShaderMode(u.uExpansion) = "sway" <=> polaroids'[i].target = "tree" ]_vars

====
